---- MODULE Spec2Model ----
(***************************************************************************)
(* Proposed-operation validation engine of the BudgiBot spreadsheet UI:    *)
(* the operation history (applyOpsToUniver.tsx), the application engine    *)
(* (applyOpsToUniver / rollbackOperation) and the validation toolbar       *)
(* (ValidationToolbar: updateStatus / acceptAll / refuseAll /              *)
(* handleConfirm) over a small workbook.                                   *)
(***************************************************************************)
EXTENDS Integers, Sequences, FiniteSets, TLC

(***************************************************************************)
(* Bounds of the model.                                                    *)
(***************************************************************************)
\* operations ever proposed; ids are 1..MaxIds, handed out fresh
MaxIds == 2
\* operations of one propose_updates message
MaxBatchLen == 2
\* rowCount / columnCount carried by a REPLACE_SHEET payload
ReplRows == 10
ReplCols == 4
\* operations of one apply_direct_updates message
MaxDirectLen == 1
MaxMsgs == 2

\* dimensions wb.create is given for a CREATE_SHEET
CreateRows == 300
CreateCols == 52

(***************************************************************************)
(* Workbook values.                                                        *)
(***************************************************************************)
\* getValue() of a cell that holds nothing
Null == "null"
\* the cached value the engine computes for a formula cell
Calc == "#calc"
Formulas == {"=B1+1"}
SheetNames == {"Budget", "Foo"}
\* cells of a sheet, as <<row, col>>
Cells == {<<0, 0>>, <<0, 1>>}
EmptyCell == [v |-> Null, f |-> ""]
NoCellData == [c \in {} |-> EmptyCell]

Ids == 1..MaxIds

Range(seq) == {seq[k] : k \in 1..Len(seq)}

\* IWorksheetData as far as the engine reads it
NoSheetData == [name |-> "", rowCount |-> 0, columnCount |-> 0, cellData |-> NoCellData]

\* Operation (Shared/Contract.tsx); the payload fields a type does not use are blank
MkOp(id, type, sheet, cell, value, data) ==
    [id |-> id, type |-> type, sheet |-> sheet, cell |-> cell, value |-> value, data |-> data]

(***************************************************************************)
(* The spreadsheet engine as the code calls it.                            *)
(***************************************************************************)
\* range.setValue(x): a formula string becomes the cell's formula, anything
\* else its raw value
SetValue(x) ==
    IF x \in Formulas THEN [v |-> Calc, f |-> x] ELSE [v |-> x, f |-> ""]

\* wb.getSheetByName(name): position of the sheet, 0 when there is none
GetSheetByName(shs, name) ==
    IF \E i \in 1..Len(shs) : shs[i].name = name
    THEN CHOOSE i \in 1..Len(shs) :
            shs[i].name = name /\ \A j \in 1..(i - 1) : shs[j].name # name
    ELSE 0

\* a fresh sheet of wb.create, filled from the `sheet` option's cellData
NewSheet(name, rows, cols, cellData) ==
    [name |-> name, rowCount |-> rows, columnCount |-> cols,
     cells |-> [c \in Cells |-> IF c \in DOMAIN cellData THEN cellData[c] ELSE EmptyCell]]

\* wb.create(name, rows, cols, {index: wb.getSheets().length, sheet}): appends
\* the sheet; the engine rejects a name that is taken (ok = FALSE: it throws)
WbCreate(shs, name, rows, cols, cellData) ==
    IF GetSheetByName(shs, name) # 0
    THEN [ok |-> FALSE, sheets |-> shs]
    ELSE [ok |-> TRUE, sheets |-> Append(shs, NewSheet(name, rows, cols, cellData))]

\* wb.deleteSheet(sheet) for the sheet at position i
WbDeleteSheet(shs, i) ==
    [j \in 1..(Len(shs) - 1) |-> IF j < i THEN shs[j] ELSE shs[j + 1]]

\* sheet.setRowCount, sheet.setColumnCount and range.setValues(cellData) on
\* the sheet at position i: the cells cellData names are overwritten
SetValues(shs, i, rows, cols, cellData) ==
    [shs EXCEPT ![i] =
        [name |-> @.name, rowCount |-> rows, columnCount |-> cols,
         cells |-> [c \in Cells |->
            IF c \in DOMAIN cellData THEN cellData[c] ELSE @.cells[c]]]]

\* the loops of captureStateBeforeOperation over a sheet's cells: a cell is
\* recorded when its value is not null or it has a formula
CaptureCellData(sh) ==
    LET kept == {c \in Cells : sh.cells[c].v # Null \/ sh.cells[c].f # ""}
    IN  [c \in kept |-> sh.cells[c]]

(***************************************************************************)
(* Operation history: operationHistory, a Map from operation id to the     *)
(* captured state.  An id without an entry maps to NoEntry.                *)
(***************************************************************************)
NoEntry ==
    [type |-> "none", sheet |-> "", cell |-> <<0, 0>>, originalValue |-> Null,
     originalFormula |-> "", hadValue |-> FALSE, sheetData |-> NoSheetData]

operationHistoryInit == [id \in Ids |-> NoEntry]

\* captureStateBeforeOperation(op): the entry, or NoEntry for null
captureStateBeforeOperation(shs, op) ==
    LET i == GetSheetByName(shs, op.sheet)
        snap == [name |-> op.sheet, rowCount |-> shs[i].rowCount,
                 columnCount |-> shs[i].columnCount,
                 cellData |-> CaptureCellData(shs[i])]
    IN  CASE op.type = "UPDATE_CELL" ->
                IF i = 0 THEN NoEntry
                ELSE [NoEntry EXCEPT !.type = "UPDATE_CELL", !.sheet = op.sheet,
                        !.cell = op.cell,
                        !.originalValue = shs[i].cells[op.cell].v,
                        !.originalFormula = shs[i].cells[op.cell].f,
                        !.hadValue = (shs[i].cells[op.cell].v # Null
                                      /\ shs[i].cells[op.cell].v # "")]
          [] op.type = "CREATE_SHEET" ->
                [NoEntry EXCEPT !.type = "CREATE_SHEET", !.sheet = op.sheet]
          [] op.type = "DELETE_SHEET" ->
                IF i = 0 THEN NoEntry
                ELSE [NoEntry EXCEPT !.type = "DELETE_SHEET", !.sheet = op.sheet,
                        !.sheetData = snap]
          [] op.type = "REPLACE_SHEET" ->
                IF i = 0 THEN NoEntry
                ELSE [NoEntry EXCEPT !.type = "REPLACE_SHEET", !.sheetData = snap]
          [] OTHER -> NoEntry

\* the capture step of applyOpsToUniver's loop body: the entry of op.id is
\* set whenever a state was captured
CaptureStep(hist, shs, op, captureHistory) ==
    LET originalState == captureStateBeforeOperation(shs, op)
    IN  IF captureHistory /\ originalState.type # "none"
        THEN [hist EXCEPT ![op.id] = originalState]
        ELSE hist

\* ApplySwitch with REPLACE_SHEET deleting the existing sheet and creating the
\* new one at the end
ApplySwitchRecreate(shs, op) ==
    LET i == GetSheetByName(shs, op.sheet)
    IN  CASE op.type = "CREATE_SHEET" ->
                WbCreate(shs, op.sheet, CreateRows, CreateCols, NoCellData).sheets
          [] op.type = "DELETE_SHEET" ->
                IF i = 0 THEN shs ELSE WbDeleteSheet(shs, i)
          [] op.type = "UPDATE_CELL" ->
                IF i = 0 THEN shs
                ELSE [shs EXCEPT ![i].cells[op.cell] = SetValue(op.value)]
          [] op.type = "REPLACE_SHEET" ->
                WbCreate(IF i # 0 THEN WbDeleteSheet(shs, i) ELSE shs,
                         op.sheet, op.data.rowCount, op.data.columnCount,
                         op.data.cellData).sheets
          [] OTHER -> shs

\* the switch of applyOpsToUniver's loop body; an exception of the engine is
\* caught and leaves the workbook as it was
ApplySwitch(shs, op) ==
    LET i == GetSheetByName(shs, op.sheet)
    IN  CASE op.type = "CREATE_SHEET" ->
                WbCreate(shs, op.sheet, CreateRows, CreateCols, NoCellData).sheets
          [] op.type = "DELETE_SHEET" ->
                IF i = 0 THEN shs ELSE WbDeleteSheet(shs, i)
          [] op.type = "UPDATE_CELL" ->
                IF i = 0 THEN shs
                ELSE [shs EXCEPT ![i].cells[op.cell] = SetValue(op.value)]
          [] op.type = "REPLACE_SHEET" ->
                IF i # 0
                THEN SetValues(shs, i, op.data.rowCount, op.data.columnCount,
                               op.data.cellData)
                ELSE WbCreate(shs, op.sheet, op.data.rowCount, op.data.columnCount,
                              op.data.cellData).sheets
          [] OTHER -> shs

\* one iteration of applyOpsToUniver's forEach on st = [sheets, history]
ApplyOne(st, op, captureHistory) ==
    [sheets |-> ApplySwitch(st.sheets, op),
     history |-> CaptureStep(st.history, st.sheets, op, captureHistory)]

RECURSIVE ApplyFrom(_, _, _, _)
ApplyFrom(st, ops, k, captureHistory) ==
    IF k > Len(ops) THEN st
    ELSE ApplyFrom(ApplyOne(st, ops[k], captureHistory), ops, k + 1, captureHistory)

\* the ways the handling of one operation fails: the switch finds no sheet
\* (DELETE_SHEET, UPDATE_CELL) or the engine throws (CREATE_SHEET of a taken
\* name); the capture returns null
SwitchFails(shs, op) ==
    \/ op.type \in {"DELETE_SHEET", "UPDATE_CELL"} /\ GetSheetByName(shs, op.sheet) = 0
    \/ op.type = "CREATE_SHEET" /\ GetSheetByName(shs, op.sheet) # 0
CaptureFails(shs, op) == captureStateBeforeOperation(shs, op).type = "none"

\* applyOpsToUniver giving up at the first operation that fails
RECURSIVE ApplyFromAbort(_, _, _, _)
ApplyFromAbort(st, ops, k, captureHistory) ==
    IF k > Len(ops) THEN st
    ELSE IF SwitchFails(st.sheets, ops[k]) \/ CaptureFails(st.sheets, ops[k])
         THEN st
         ELSE ApplyFromAbort(ApplyOne(st, ops[k], captureHistory), ops, k + 1, captureHistory)
applyOpsToUniverAbort(st, ops, captureHistory) == ApplyFromAbort(st, ops, 1, captureHistory)

\* applyOpsToUniver taking the operations last to first
RECURSIVE ApplyDownFrom(_, _, _, _)
ApplyDownFrom(st, ops, k, captureHistory) ==
    IF k < 1 THEN st
    ELSE ApplyDownFrom(ApplyOne(st, ops[k], captureHistory), ops, k - 1, captureHistory)
applyOpsToUniverReversed(st, ops, captureHistory) ==
    ApplyDownFrom(st, ops, Len(ops), captureHistory)

\* applyOpsToUniver(ops, captureHistory): the operations in list order
applyOpsToUniver(st, ops, captureHistory) == ApplyFrom(st, ops, 1, captureHistory)

\* RollbackSwitch with the two UPDATE_CELL branches swapped: the cached value
\* is restored before the formula is looked at
RollbackSwitchValueFirst(shs, originalState) ==
    LET name == IF originalState.type \in {"DELETE_SHEET", "REPLACE_SHEET"}
                THEN originalState.sheetData.name ELSE originalState.sheet
        i == GetSheetByName(shs, name)
        sd == originalState.sheetData
    IN  CASE originalState.type = "UPDATE_CELL" ->
                IF i = 0 THEN [ok |-> FALSE, sheets |-> shs]
                ELSE [ok |-> TRUE,
                      sheets |-> [shs EXCEPT ![i].cells[originalState.cell] =
                          IF originalState.hadValue
                          THEN SetValue(originalState.originalValue)
                          ELSE IF originalState.originalFormula # ""
                               THEN SetValue(originalState.originalFormula)
                               ELSE SetValue("")]]
          [] originalState.type = "CREATE_SHEET" ->
                [ok |-> TRUE,
                 sheets |-> IF i # 0 THEN WbDeleteSheet(shs, i) ELSE shs]
          [] originalState.type = "DELETE_SHEET" ->
                WbCreate(shs, sd.name, sd.rowCount, sd.columnCount, sd.cellData)
          [] originalState.type = "REPLACE_SHEET" ->
                [ok |-> TRUE,
                 sheets |-> IF i # 0
                            THEN SetValues(shs, i, sd.rowCount, sd.columnCount, sd.cellData)
                            ELSE shs]
          [] OTHER -> [ok |-> TRUE, sheets |-> shs]

\* the switch of rollbackOperation on the entry found; ok = FALSE is the
\* early `return false` or the catch branch
RollbackSwitch(shs, originalState) ==
    LET name == IF originalState.type \in {"DELETE_SHEET", "REPLACE_SHEET"}
                THEN originalState.sheetData.name ELSE originalState.sheet
        i == GetSheetByName(shs, name)
        sd == originalState.sheetData
    IN  CASE originalState.type = "UPDATE_CELL" ->
                IF i = 0 THEN [ok |-> FALSE, sheets |-> shs]
                ELSE [ok |-> TRUE,
                      sheets |-> [shs EXCEPT ![i].cells[originalState.cell] =
                          IF originalState.originalFormula # ""
                          THEN SetValue(originalState.originalFormula)
                          ELSE IF originalState.hadValue
                               THEN SetValue(originalState.originalValue)
                               ELSE SetValue("")]]
          [] originalState.type = "CREATE_SHEET" ->
                [ok |-> TRUE,
                 sheets |-> IF i # 0 THEN WbDeleteSheet(shs, i) ELSE shs]
          [] originalState.type = "DELETE_SHEET" ->
                WbCreate(shs, sd.name, sd.rowCount, sd.columnCount, sd.cellData)
          [] originalState.type = "REPLACE_SHEET" ->
                [ok |-> TRUE,
                 sheets |-> IF i # 0
                            THEN SetValues(shs, i, sd.rowCount, sd.columnCount, sd.cellData)
                            ELSE shs]
          [] OTHER -> [ok |-> TRUE, sheets |-> shs]

\* RollbackHistory without the delete
RollbackHistoryKeep(hist, id) == hist

\* what a successful rollback does to the history: operationHistory.delete(op.id)
RollbackHistory(hist, id) == [hist EXCEPT ![id] = NoEntry]

\* rollbackOperation looking for an entry by what is there instead of by the
\* operation's id: without an entry of its own it takes the entry of another id
rollbackOperationFallback(st, op) ==
    LET others == {id \in Ids : st.history[id].type # "none"}
        key == IF st.history[op.id].type # "none" \/ others = {} THEN op.id
               ELSE CHOOSE id \in others : \A o \in others : id <= o
        originalState == st.history[key]
        r == RollbackSwitch(st.sheets, originalState)
    IN  IF originalState.type = "none"
        THEN [ok |-> FALSE, sheets |-> st.sheets, history |-> st.history]
        ELSE IF r.ok
             THEN [ok |-> TRUE, sheets |-> r.sheets,
                   history |-> RollbackHistory(st.history, key)]
             ELSE [ok |-> FALSE, sheets |-> r.sheets, history |-> st.history]

\* rollbackOperation(op) on st = [sheets, history]: [ok, sheets, history]
rollbackOperation(st, op) ==
    LET originalState == st.history[op.id]
        r == RollbackSwitch(st.sheets, originalState)
    IN  IF originalState.type = "none"
        THEN [ok |-> FALSE, sheets |-> st.sheets, history |-> st.history]
        ELSE IF r.ok
             THEN [ok |-> TRUE, sheets |-> r.sheets,
                   history |-> RollbackHistory(st.history, op.id)]
             ELSE [ok |-> FALSE, sheets |-> r.sheets, history |-> st.history]

\* clearOperationHistory(operationIds)
clearOperationHistory(hist, ids) ==
    [id \in Ids |-> IF id \in ids THEN NoEntry ELSE hist[id]]

(***************************************************************************)
(* WorkbookContext: the reducer on its state [workbook, pendingOps].        *)
(***************************************************************************)
\* reducer with QUEUE_OPS adding to the list instead of replacing it
reducerAppend(state, action) ==
    CASE action.type = "REPLACE_WORKBOOK" -> [state EXCEPT !.workbook = action.wb]
      [] action.type = "QUEUE_OPS" -> [state EXCEPT !.pendingOps = state.pendingOps \o action.ops]
      [] action.type = "CLEAR_PENDING" -> [state EXCEPT !.pendingOps = <<>>]
      [] OTHER -> state

\* reducer building its result from scratch instead of spreading the state
reducerNoSpread(state, action) ==
    CASE action.type = "REPLACE_WORKBOOK" -> [workbook |-> action.wb, pendingOps |-> <<>>]
      [] action.type = "QUEUE_OPS" -> [workbook |-> state.workbook, pendingOps |-> action.ops]
      [] action.type = "CLEAR_PENDING" -> [workbook |-> state.workbook, pendingOps |-> <<>>]
      [] OTHER -> state

\* reducer(state, action)
reducer(state, action) ==
    CASE action.type = "REPLACE_WORKBOOK" -> [state EXCEPT !.workbook = action.wb]
      [] action.type = "QUEUE_OPS" -> [state EXCEPT !.pendingOps = action.ops]
      [] action.type = "CLEAR_PENDING" -> [state EXCEPT !.pendingOps = <<>>]
      [] OTHER -> state

(***************************************************************************)
(* Validation toolbar (ValidationToolbar): pure form of the handlers on    *)
(* ctl = [validations, sheets, history].                                   *)
(***************************************************************************)
\* the items the pendingOps effect builds
NewValidations(ops) ==
    [k \in 1..Len(ops) |-> [operation |-> ops[k], status |-> "pending", applied |-> TRUE]]

\* the pendingOps effect applying the operations without capturing
PendingOpsEffectNoCapture(ctl, ops) ==
    LET ap == IF Len(ops) > 0
              THEN applyOpsToUniver([sheets |-> ctl.sheets, history |-> ctl.history], ops, FALSE)
              ELSE [sheets |-> ctl.sheets, history |-> ctl.history]
    IN  [validations |-> NewValidations(ops), sheets |-> ap.sheets, history |-> ap.history]

\* the pendingOps effect: fresh items, and every operation applied at once
PendingOpsEffect(ctl, ops) ==
    LET ap == IF Len(ops) > 0
              THEN applyOpsToUniver([sheets |-> ctl.sheets, history |-> ctl.history], ops, TRUE)
              ELSE [sheets |-> ctl.sheets, history |-> ctl.history]
    IN  [validations |-> NewValidations(ops), sheets |-> ap.sheets, history |-> ap.history]

\* updateStatus without the `return prev` of the failed rollback: the status
\* is written all the same
updateStatusNoReturn(ctl, index, newStatus) ==
    LET item == ctl.validations[index]
        st == [sheets |-> ctl.sheets, history |-> ctl.history]
        rb == rollbackOperation(st, item.operation)
        ap == applyOpsToUniver(st, <<item.operation>>, TRUE)
    IN  IF newStatus = "refused" /\ item.applied
        THEN [validations |-> [ctl.validations EXCEPT ![index] =
                    [operation |-> item.operation, status |-> newStatus, applied |-> rb.ok = FALSE]],
              sheets |-> rb.sheets, history |-> rb.history,
              rb |-> IF rb.ok THEN "ok" ELSE "failed"]
        ELSE IF newStatus = "accepted" /\ ~item.applied
             THEN [validations |-> [ctl.validations EXCEPT ![index] =
                        [operation |-> item.operation, status |-> newStatus, applied |-> TRUE]],
                   sheets |-> ap.sheets, history |-> ap.history, rb |-> "none"]
             ELSE [validations |-> [ctl.validations EXCEPT ![index].status = newStatus],
                   sheets |-> ctl.sheets, history |-> ctl.history, rb |-> "none"]

\* updateStatus putting the item back to pending when the rollback fails
updateStatusResetPending(ctl, index, newStatus) ==
    LET item == ctl.validations[index]
        st == [sheets |-> ctl.sheets, history |-> ctl.history]
        rb == rollbackOperation(st, item.operation)
        ap == applyOpsToUniver(st, <<item.operation>>, TRUE)
    IN  IF newStatus = "refused" /\ item.applied
        THEN IF rb.ok
             THEN [validations |-> [ctl.validations EXCEPT ![index] =
                        [operation |-> item.operation, status |-> newStatus, applied |-> FALSE]],
                   sheets |-> rb.sheets, history |-> rb.history, rb |-> "ok"]
             ELSE [validations |-> [ctl.validations EXCEPT ![index].status = "pending"],
                   sheets |-> rb.sheets, history |-> rb.history, rb |-> "failed"]
        ELSE IF newStatus = "accepted" /\ ~item.applied
             THEN [validations |-> [ctl.validations EXCEPT ![index] =
                        [operation |-> item.operation, status |-> newStatus, applied |-> TRUE]],
                   sheets |-> ap.sheets, history |-> ap.history, rb |-> "none"]
             ELSE [validations |-> [ctl.validations EXCEPT ![index].status = newStatus],
                   sheets |-> ctl.sheets, history |-> ctl.history, rb |-> "none"]

\* updateStatus(index, newStatus); rb tells how the rollback went
updateStatus(ctl, index, newStatus) ==
    LET item == ctl.validations[index]
        st == [sheets |-> ctl.sheets, history |-> ctl.history]
        rb == rollbackOperation(st, item.operation)
        ap == applyOpsToUniver(st, <<item.operation>>, TRUE)
    IN  IF newStatus = "refused" /\ item.applied
        THEN IF rb.ok
             THEN [validations |-> [ctl.validations EXCEPT ![index] =
                        [operation |-> item.operation, status |-> newStatus, applied |-> FALSE]],
                   sheets |-> rb.sheets, history |-> rb.history, rb |-> "ok"]
             ELSE [validations |-> ctl.validations,
                   sheets |-> rb.sheets, history |-> rb.history, rb |-> "failed"]
        ELSE IF newStatus = "accepted" /\ ~item.applied
             THEN [validations |-> [ctl.validations EXCEPT ![index] =
                        [operation |-> item.operation, status |-> newStatus, applied |-> TRUE]],
                   sheets |-> ap.sheets, history |-> ap.history, rb |-> "none"]
             ELSE [validations |-> [ctl.validations EXCEPT ![index].status = newStatus],
                   sheets |-> ctl.sheets, history |-> ctl.history, rb |-> "none"]

\* the body of acceptAll's forEach for the item at index
AcceptItem(ctl, index) ==
    LET item == ctl.validations[index]
        ap == applyOpsToUniver([sheets |-> ctl.sheets, history |-> ctl.history],
                               <<item.operation>>, TRUE)
    IN  IF item.status # "accepted"
        THEN IF ~item.applied
             THEN [validations |-> [ctl.validations EXCEPT ![index] =
                        [operation |-> item.operation, status |-> "accepted", applied |-> TRUE]],
                   sheets |-> ap.sheets, history |-> ap.history, rb |-> ctl.rb]
             ELSE [ctl EXCEPT !.validations[index].status = "accepted"]
        ELSE ctl

\* the body of refuseAll's forEach for the item at index: the result of
\* rollbackOperation is not looked at
RefuseItem(ctl, index) ==
    LET item == ctl.validations[index]
        rb == rollbackOperation([sheets |-> ctl.sheets, history |-> ctl.history],
                                item.operation)
    IN  IF item.status # "refused"
        THEN IF item.applied
             THEN [validations |-> [ctl.validations EXCEPT ![index] =
                        [operation |-> item.operation, status |-> "refused", applied |-> FALSE]],
                   sheets |-> rb.sheets, history |-> rb.history,
                   rb |-> IF rb.ok /\ ctl.rb # "failed" THEN "ok" ELSE "failed"]
             ELSE [ctl EXCEPT !.validations[index].status = "refused"]
        ELSE ctl

RECURSIVE AcceptFrom(_, _)
AcceptFrom(ctl, k) ==
    IF k > Len(ctl.validations) THEN ctl ELSE AcceptFrom(AcceptItem(ctl, k), k + 1)

RECURSIVE RefuseFrom(_, _)
RefuseFrom(ctl, k) ==
    IF k > Len(ctl.validations) THEN ctl ELSE RefuseFrom(RefuseItem(ctl, k), k + 1)

\* acceptAll accepting the pending items only
acceptAllPendingOnly(ctl) ==
    LET all == AcceptFrom([validations |-> ctl.validations, sheets |-> ctl.sheets,
                           history |-> ctl.history, rb |-> "none"], 1)
    IN  [all EXCEPT !.validations =
            [k \in 1..Len(ctl.validations) |->
                IF ctl.validations[k].status = "pending" THEN all.validations[k]
                ELSE ctl.validations[k]]]

\* acceptAll() and refuseAll(): the items in list order
acceptAll(ctl) ==
    AcceptFrom([validations |-> ctl.validations, sheets |-> ctl.sheets,
                history |-> ctl.history, rb |-> "none"], 1)

refuseAll(ctl) ==
    RefuseFrom([validations |-> ctl.validations, sheets |-> ctl.sheets,
                history |-> ctl.history, rb |-> "none"], 1)

\* canConfirm
canConfirm(vals) == \A k \in 1..Len(vals) : vals[k].status # "pending"

\* validations.filter(v => v.status === status).map(v => v.operation.id)
RECURSIVE IdsWithStatus(_, _)
IdsWithStatus(vals, status) ==
    IF Len(vals) = 0 THEN <<>>
    ELSE (IF Head(vals).status = status THEN <<Head(vals).operation.id>> ELSE <<>>)
         \o IdsWithStatus(Tail(vals), status)

\* acceptedIds with the filter dropped
acceptedIdsUnfiltered(vals) == [k \in 1..Len(vals) |-> vals[k].operation.id]

acceptedIds(vals) == IdsWithStatus(vals, "accepted")
refusedIds(vals) == IdsWithStatus(vals, "refused")

NoMessage == [sent |-> FALSE, accepted |-> <<>>, refused |-> <<>>]

\* sendMessage(type, payload): the message goes to the worker, and from
\* there to the socket, only while the socket is open and the worker exists;
\* the result is what the socket was last given
sendMessage(sock, msg, wire) ==
    IF sock.wsInstance # "open" \/ ~sock.workerInstance THEN wire ELSE msg

\* App.handleValidationConfirm(acceptedIds, refusedIds) on the reducer state
handleValidationConfirm(c, msg) ==
    [wire |-> sendMessage(c.socket, msg, c.wire),
     state |-> reducer([workbook |-> c.workbook, pendingOps |-> c.pendingOps],
                       [type |-> "CLEAR_PENDING"])]

\* handleConfirm without the canConfirm guard
handleConfirmUnguarded(c) ==
    LET msg == [sent |-> TRUE, accepted |-> acceptedIds(c.validations),
                refused |-> refusedIds(c.validations)]
        app == handleValidationConfirm(c, msg)
    IN  [c EXCEPT !.validations = <<>>,
                  !.pendingOps = app.state.pendingOps,
                  !.workbook = app.state.workbook,
                  !.wire = app.wire,
                  !.history = clearOperationHistory(c.history,
                        {c.validations[k].operation.id : k \in 1..Len(c.validations)}),
                  !.emitted = msg]

\* handleConfirm clearing the history of the accepted ids only
handleConfirmClearAccepted(c) ==
    LET msg == [sent |-> TRUE, accepted |-> acceptedIds(c.validations),
                refused |-> refusedIds(c.validations)]
        app == handleValidationConfirm(c, msg)
    IN  IF ~canConfirm(c.validations) THEN c
        ELSE [c EXCEPT !.validations = <<>>,
                       !.pendingOps = app.state.pendingOps,
                       !.workbook = app.state.workbook,
                       !.wire = app.wire,
                       !.history = clearOperationHistory(c.history,
                                        Range(acceptedIds(c.validations))),
                       !.emitted = msg]

\* handleConfirm() on [validations, pendingOps, workbook, history, emitted,
\* socket, wire]: onConfirm(acceptedIds, refusedIds) is
\* App.handleValidationConfirm
handleConfirm(c) ==
    LET msg == [sent |-> TRUE, accepted |-> acceptedIds(c.validations),
                refused |-> refusedIds(c.validations)]
        app == handleValidationConfirm(c, msg)
    IN  IF ~canConfirm(c.validations) THEN c
        ELSE [c EXCEPT !.validations = <<>>,
                       !.pendingOps = app.state.pendingOps,
                       !.workbook = app.state.workbook,
                       !.wire = app.wire,
                       !.history = clearOperationHistory(c.history,
                            {c.validations[k].operation.id : k \in 1..Len(c.validations)}),
                       !.emitted = msg]

(***************************************************************************)
(* UniverSheet: what guards the capture of user edits, and App's handling  *)
(* of the backend's messages.                                              *)
(***************************************************************************)
\* the "programmatic change in progress" flag of the application engine: set
\* to true for the duration of an apply or rollback call, reset to false in
\* a finally
BeginProgrammaticChange == TRUE
EndProgrammaticChange == FALSE

\* isLoadingRef is true only inside the effect that loads a workbook, which
\* runs to its end before any other handler; isValidationPendingRef is
\* declared false and never assigned
isLoadingRef == FALSE
isValidationPendingRef == FALSE

\* the effect on state.pendingOps that sets isUserEditAllowedRef
UserEditAllowedEffect(pending) == ~(Len(pending) > 0) /\ ~isLoadingRef

\* the BeforeSheetEditStart listener: TRUE when the edit is cancelled
BeforeSheetEditStart(allowed) == ~allowed

\* the SheetValueChanged listener without its first line
SheetValueChangedNoFlag(programmatic, loading, validationPending, changed) ==
    IF loading THEN FALSE
    ELSE IF validationPending THEN FALSE
    ELSE \E cell \in changed : cell.f = ""

\* the SheetValueChanged listener on the cells a change touched: TRUE when
\* onCellChange is called, i.e. a cell_update goes to the backend; cells
\* that hold a formula are filtered out
SheetValueChanged(programmatic, loading, validationPending, changed) ==
    IF programmatic THEN FALSE
    ELSE IF loading THEN FALSE
    ELSE IF validationPending THEN FALSE
    ELSE \E cell \in changed : cell.f = ""

\* the cells that setValue / setValues calls left different: the new content
\* of every cell that differs, over the sheets present before and after
ChangedCells(before, after) ==
    {after[ac[1]].cells[ac[2]] :
        ac \in {x \in (1..Len(after)) \X Cells :
                    \E b \in 1..Len(before) :
                        /\ before[b].name = after[x[1]].name
                        /\ before[b].cells[x[2]] # after[x[1]].cells[x[2]]}}

\* App's message handler with apply_direct_updates queued like a proposal
MessageHandlerQueueAll(msg, state) ==
    CASE msg.type = "workbook_update" ->
            [state |-> reducer(state, [type |-> "REPLACE_WORKBOOK", wb |-> msg.wb]),
             applyOperations |-> <<>>]
      [] msg.type = "apply_direct_updates" ->
            [state |-> reducer(state, [type |-> "QUEUE_OPS", ops |-> msg.ops]),
             applyOperations |-> <<>>]
      [] msg.type = "propose_updates" ->
            [state |-> reducer(state, [type |-> "QUEUE_OPS", ops |-> msg.ops]),
             applyOperations |-> <<>>]
      [] OTHER -> [state |-> state, applyOperations |-> <<>>]

\* App's message handler: the reducer state it leaves and the operations it
\* hands to sheetRef.applyOperations
MessageHandler(msg, state) ==
    CASE msg.type = "workbook_update" ->
            [state |-> reducer(state, [type |-> "REPLACE_WORKBOOK", wb |-> msg.wb]),
             applyOperations |-> <<>>]
      [] msg.type = "apply_direct_updates" ->
            [state |-> state, applyOperations |-> msg.ops]
      [] msg.type = "propose_updates" ->
            [state |-> reducer(state, [type |-> "QUEUE_OPS", ops |-> msg.ops]),
             applyOperations |-> <<>>]
      [] OTHER -> [state |-> state, applyOperations |-> <<>>]

\* UniverSheetHandle.applyOperations(ops)
applyOperations(st, ops) == applyOpsToUniver(st, ops, TRUE)

(***************************************************************************)
(* useAppWebSocket: the module-level connection, the hook's effect, and    *)
(* the way a server message reaches App.                                   *)
(***************************************************************************)
\* wsInstance, workerInstance and connectionPromise are the module's
\* singletons ("null" for no socket, else the socket's state); isMounted is
\* the hook's ref; sockets and workers count the WebSocket connections and
\* the workers that were created and not yet closed or terminated.  The
\* session starts with the hook mounted and the connection open.
ConnectedSocket ==
    [wsInstance |-> "open", workerInstance |-> TRUE, connectionPromise |-> TRUE,
     isMounted |-> TRUE, sockets |-> 1, workers |-> 1]

\* setupConnection(onMessage, onStatusChange)
setupConnection(s) ==
    IF s.connectionPromise THEN s
    ELSE [s EXCEPT !.connectionPromise = TRUE,
                   !.workerInstance = TRUE, !.workers = @ + 1,
                   !.wsInstance = "connecting", !.sockets = @ + 1]

\* the hook's effect
useEffectMount(s) ==
    LET m == [s EXCEPT !.isMounted = TRUE]
    IN  IF m.wsInstance = "null" /\ ~m.connectionPromise THEN setupConnection(m) ELSE m

\* the effect's cleanup
useEffectCleanup(s) == [s EXCEPT !.isMounted = FALSE]

\* wsInstance.onopen
onopen(s) == [s EXCEPT !.wsInstance = "open"]

\* onclose leaving the worker running
oncloseKeepWorker(s) ==
    [s EXCEPT !.wsInstance = "null", !.sockets = @ - 1,
              !.workerInstance = FALSE, !.connectionPromise = FALSE]

\* wsInstance.onclose
onclose(s) ==
    [s EXCEPT !.wsInstance = "null", !.sockets = @ - 1,
              !.workers = IF s.workerInstance THEN @ - 1 ELSE @,
              !.workerInstance = FALSE, !.connectionPromise = FALSE]

\* wsInstance.onerror: the socket is no longer open, the singletons stay
onerror(s) == [s EXCEPT !.wsInstance = "errored"]

\* the hook's lastMessage state with what became of the messages: how many
\* were received, the frames whose text is still being read, whether the
\* App effect has yet to run for lastMessage, the sequence numbers App
\* handled, and whether a message came while the hook was not mounted
NoServerMessage == [seq |-> 0, type |-> "none", ops |-> <<>>, wb |-> <<>>]
EmptyInbox ==
    [received |-> 0, parsing |-> {}, lastMessage |-> NoServerMessage,
     fresh |-> FALSE, handled |-> <<>>, lost |-> FALSE]

\* handleMessage(msg)
handleMessage(s, box, msg) ==
    IF s.isMounted THEN [box EXCEPT !.lastMessage = msg, !.fresh = TRUE]
    ELSE [box EXCEPT !.lost = TRUE]

\* wsInstance.onmessage(evt): a text frame is parsed and handed over in the
\* same task; the text of a binary frame is read asynchronously first
onmessage(s, box, msg, isBlob) ==
    LET got == [box EXCEPT !.received = @ + 1]
    IN  IF isBlob THEN [got EXCEPT !.parsing = @ \cup {msg}]
        ELSE handleMessage(s, got, msg)

\* the rest of onmessage once blobToText has resolved
onmessageResume(s, box, msg) ==
    handleMessage(s, [box EXCEPT !.parsing = @ \ {msg}], msg)

(***************************************************************************)
(* The state machine.                                                      *)
(***************************************************************************)
VARIABLES
    sheets,            \* the live workbook: its sheets in tab order
    operationHistory,  \* operation id -> captured state
    pendingOps,        \* WorkbookContext state.pendingOps
    validations,       \* ValidationToolbar state
    emitted,           \* what onConfirm was last called with
    nextId,            \* the next fresh operation id
    last,              \* the handler that ran last and how its rollback went
    pre,               \* per item: its target as it was before the batch applied it
    isUserEditAllowedRef,  \* UniverSheet's ref of that name
    programmaticChange,    \* the engine's "programmatic change" flag
    cellUpdate,        \* what the last handler sent as cell_update: "none",
                       \* a "user" change or a "programmatic" one
    workbook,          \* WorkbookContext state.workbook
    socket,            \* the connection singletons and the hook's ref
    inbox,             \* the server messages on their way to App
    wire               \* the validate_changes message the socket was last given

vars == <<sheets, operationHistory, pendingOps, validations, emitted, nextId, last, pre,
          isUserEditAllowedRef, programmaticChange, cellUpdate,
          workbook, socket, inbox, wire>>

\* workbooks the session starts from
Sheet(name, a1) ==
    [name |-> name, rowCount |-> CreateRows, columnCount |-> CreateCols,
     cells |-> [c \in Cells |-> IF c = <<0, 0>> THEN a1 ELSE EmptyCell]]

InitContents == {EmptyCell, SetValue("3"), SetValue("=B1+1")}

InitWorkbooks ==
    {<<Sheet("Budget", a)>> : a \in InitContents}
    \cup {<<Sheet("Budget", EmptyCell), Sheet("Foo", SetValue("7"))>>,
          <<Sheet("Foo", SetValue("7")), Sheet("Budget", EmptyCell)>>}

\* the operations a backend message may carry, before they get their ids
ReplaceData(name) ==
    [name |-> name, rowCount |-> ReplRows, columnCount |-> ReplCols,
     cellData |-> [c \in {<<0, 1>>} |-> SetValue("7")]]

OpTemplates ==
    {MkOp(0, "UPDATE_CELL", "Budget", <<0, 0>>, x, NoSheetData) : x \in {"5", "7"}}
    \cup {MkOp(0, "UPDATE_CELL", "Foo", <<0, 0>>, "5", NoSheetData)}
    \cup {MkOp(0, t, "Foo", <<0, 0>>, "", NoSheetData) : t \in {"CREATE_SHEET", "DELETE_SHEET"}}
    \cup {MkOp(0, "REPLACE_SHEET", "Foo", <<0, 0>>, "", ReplaceData("Foo"))}

\* the batches of n operations with ids first, first + 1, ...
Batches(first, n) ==
    {[k \in 1..n |-> [ts[k] EXCEPT !.id = first + k - 1]] : ts \in [1..n -> OpTemplates]}

\* the cell the user changes and what is typed into it
UserSheet == "Budget"
UserCell == <<0, 0>>
UserValue == "9"

NoLast == [kind |-> "init", index |-> 0, status |-> "", rb |-> "none"]

\* what an operation is aimed at, as the workbook shows it
NoSheetCell == [v |-> "#nosheet", f |-> ""]
Target(shs, op) ==
    LET i == GetSheetByName(shs, op.sheet)
    IN  [cell |-> IF op.type # "UPDATE_CELL" THEN EmptyCell
                  ELSE IF i = 0 THEN NoSheetCell ELSE shs[i].cells[op.cell],
         sheet |-> IF op.type = "UPDATE_CELL" \/ i = 0 THEN <<>> ELSE <<shs[i]>>]

RECURSIVE PreFrom(_, _, _)
PreFrom(shs, ops, k) ==
    IF k > Len(ops) THEN <<>>
    ELSE <<Target(shs, ops[k])>> \o PreFrom(ApplySwitch(shs, ops[k]), ops, k + 1)

Init ==
    /\ sheets \in InitWorkbooks
    /\ operationHistory = operationHistoryInit
    /\ pendingOps = <<>>
    /\ validations = <<>>
    /\ emitted = NoMessage
    /\ nextId = 1
    /\ last = NoLast
    /\ pre = <<>>
    /\ isUserEditAllowedRef = TRUE
    /\ programmaticChange = FALSE
    /\ cellUpdate = "none"
    /\ workbook = sheets
    /\ socket = ConnectedSocket
    /\ inbox = EmptyInbox
    /\ wire = NoMessage

\* a handler that calls the engine: the flag is up while the engine changes
\* the workbook and the listener hears of the changed cells, and down again
\* at the end
EngineCall ==
    /\ programmaticChange' = EndProgrammaticChange
    /\ cellUpdate' =
            IF SheetValueChanged(BeginProgrammaticChange, isLoadingRef,
                                 isValidationPendingRef, ChangedCells(sheets, sheets'))
            THEN "programmatic" ELSE "none"
    /\ isUserEditAllowedRef' = UserEditAllowedEffect(pendingOps')

Ctl == [validations |-> validations, sheets |-> sheets, history |-> operationHistory]

\* WorkbookContext's state
State == [workbook |-> workbook, pendingOps |-> pendingOps]

\* the lastMessage effect on propose_updates: QUEUE_OPS replaces pendingOps,
\* then the toolbar's pendingOps effect runs
Queue(st) ==
    /\ pendingOps' = st.pendingOps
    /\ workbook' = st.workbook
    /\ LET r == PendingOpsEffect(Ctl, pendingOps')
       IN  /\ validations' = r.validations
           /\ sheets' = r.sheets
           /\ operationHistory' = r.history
    /\ pre' = PreFrom(sheets, pendingOps', 1)
    /\ last' = [NoLast EXCEPT !.kind = "propose"]
    /\ EngineCall
    /\ UNCHANGED <<emitted, wire, socket>>

\* propose_updates: QUEUE_OPS replaces pendingOps, then the pendingOps effect
ProposeUpdates ==
    \E n \in 1..MaxBatchLen :
      /\ nextId + n - 1 <= MaxIds
      /\ \E ops \in Batches(nextId, n) :
        /\ Queue(MessageHandler([type |-> "propose_updates", ops |-> ops], State).state)
        /\ nextId' = nextId + Len(ops)
        /\ UNCHANGED inbox

\* a click on an item's accept or refuse button
UpdateStatus ==
    \E index \in 1..Len(validations), newStatus \in {"accepted", "refused"} :
        LET r == updateStatus(Ctl, index, newStatus)
        IN  /\ validations' = r.validations
            /\ sheets' = r.sheets
            /\ operationHistory' = r.history
            /\ last' = [kind |-> "updateStatus", index |-> index,
                        status |-> newStatus, rb |-> r.rb]
            /\ UNCHANGED <<pendingOps, emitted, nextId, pre, workbook, socket, inbox, wire>>
            /\ EngineCall

AcceptAll ==
    /\ Len(validations) > 0
    /\ LET r == acceptAll(Ctl)
       IN  /\ validations' = r.validations
           /\ sheets' = r.sheets
           /\ operationHistory' = r.history
           /\ last' = [kind |-> "acceptAll", index |-> 0, status |-> "accepted", rb |-> r.rb]
    /\ UNCHANGED <<pendingOps, emitted, nextId, pre, workbook, socket, inbox, wire>>
    /\ EngineCall

RefuseAll ==
    /\ Len(validations) > 0
    /\ LET r == refuseAll(Ctl)
       IN  /\ validations' = r.validations
           /\ sheets' = r.sheets
           /\ operationHistory' = r.history
           /\ last' = [kind |-> "refuseAll", index |-> 0, status |-> "refused", rb |-> r.rb]
    /\ UNCHANGED <<pendingOps, emitted, nextId, pre, workbook, socket, inbox, wire>>
    /\ EngineCall

\* what handleConfirm and App.handleValidationConfirm read and write
ConfirmCtl ==
    [validations |-> validations, pendingOps |-> pendingOps, workbook |-> workbook,
     history |-> operationHistory, emitted |-> emitted, socket |-> socket, wire |-> wire]

\* handleConfirm; the toolbar is rendered only while there are items
HandleConfirm ==
    /\ Len(validations) > 0
    /\ LET r == handleConfirm(ConfirmCtl)
       IN  /\ validations' = r.validations
           /\ pendingOps' = r.pendingOps
           /\ workbook' = r.workbook
           /\ operationHistory' = r.history
           /\ emitted' = r.emitted
           /\ wire' = r.wire
           /\ pre' = IF Len(r.validations) = 0 THEN <<>> ELSE pre
    /\ last' = [kind |-> "confirm", index |-> 0, status |-> "", rb |-> "none"]
    /\ isUserEditAllowedRef' = UserEditAllowedEffect(pendingOps')
    /\ cellUpdate' = "none"
    /\ UNCHANGED <<sheets, nextId, programmaticChange, socket, inbox>>

\* apply_direct_updates: the operations go straight to the engine
ApplyDirectUpdates ==
    /\ nextId + MaxDirectLen - 1 <= MaxIds
    /\ \E ops \in Batches(nextId, MaxDirectLen) :
        LET m == MessageHandler([type |-> "apply_direct_updates", ops |-> ops], State)
            queued == m.state.pendingOps # pendingOps
            eff == IF queued THEN PendingOpsEffect(Ctl, m.state.pendingOps)
                   ELSE [validations |-> validations, sheets |-> sheets,
                         history |-> operationHistory]
            r == IF Len(m.applyOperations) > 0
                 THEN applyOperations([sheets |-> eff.sheets, history |-> eff.history],
                                      m.applyOperations)
                 ELSE [sheets |-> eff.sheets, history |-> eff.history]
        IN  /\ pendingOps' = m.state.pendingOps
            /\ workbook' = m.state.workbook
            /\ validations' = eff.validations
            /\ sheets' = r.sheets
            /\ operationHistory' = r.history
            /\ pre' = IF queued THEN PreFrom(sheets, m.state.pendingOps, 1) ELSE pre
            /\ nextId' = nextId + Len(ops)
            /\ last' = [NoLast EXCEPT !.kind = "direct"]
            /\ EngineCall
            /\ UNCHANGED <<emitted, socket, inbox, wire>>

\* the user changes a cell: through the cell editor (BeforeSheetEditStart may
\* cancel it), or with a command that needs no editor (the Delete key, a
\* paste), which only the SheetValueChanged listener sees
UserChange ==
    \E how \in {"edit", "clear"} :
        LET i == GetSheetByName(sheets, UserSheet)
            cancelled == how = "edit" /\ BeforeSheetEditStart(isUserEditAllowedRef)
            new == IF how = "edit" THEN SetValue(UserValue) ELSE EmptyCell
        IN  /\ i # 0
            /\ sheets' = IF cancelled THEN sheets
                          ELSE [sheets EXCEPT ![i].cells[UserCell] = new]
            /\ cellUpdate' =
                    IF ~cancelled /\ SheetValueChanged(programmaticChange, isLoadingRef,
                                                       isValidationPendingRef, {new})
                    THEN "user" ELSE "none"
            /\ last' = [kind |-> "user", index |-> 0, status |-> how,
                        rb |-> IF cancelled THEN "cancelled" ELSE "none"]
            /\ UNCHANGED <<operationHistory, pendingOps, validations, emitted, nextId, pre,
                           isUserEditAllowedRef, programmaticChange,
                           workbook, socket, inbox, wire>>

Next ==
    \/ ProposeUpdates
    \/ UpdateStatus
    \/ AcceptAll
    \/ RefuseAll
    \/ HandleConfirm

\* the validation cycle on its own
Spec == Init /\ [][Next]_vars

\* the validation cycle together with direct updates and the user's changes
NextCapture ==
    \/ ProposeUpdates
    \/ UpdateStatus
    \/ AcceptAll
    \/ RefuseAll
    \/ HandleConfirm
    \/ ApplyDirectUpdates
    \/ UserChange

SpecCapture == Init /\ [][NextCapture]_vars

\* the server messages of the connection: a proposal of one operation, or a
\* workbook snapshot
ServerBatches(first) ==
    {<<[t EXCEPT !.id = first]>> :
        t \in {MkOp(0, "UPDATE_CELL", "Budget", <<0, 0>>, "5", NoSheetData),
               MkOp(0, "CREATE_SHEET", "Foo", <<0, 0>>, "", NoSheetData)}}

ServerMessages(seq, first) ==
    {[seq |-> seq, type |-> "propose_updates", ops |-> ops, wb |-> <<>>] :
        ops \in IF first <= MaxIds THEN ServerBatches(first) ELSE {}}
    \cup {[seq |-> seq, type |-> "workbook_update", ops |-> <<>>, wb |-> wb] :
        wb \in {<<Sheet("Budget", SetValue("3"))>>}}

Step(kind) == [NoLast EXCEPT !.kind = kind]

\* what the hook's actions leave alone
AppIdle ==
    UNCHANGED <<sheets, operationHistory, pendingOps, validations, emitted, pre,
                isUserEditAllowedRef, programmaticChange, cellUpdate, workbook, wire>>

\* the hook is mounted (again): its effect runs
Mount ==
    /\ ~socket.isMounted
    /\ socket' = useEffectMount(socket)
    /\ last' = Step("mount")
    /\ UNCHANGED <<inbox, nextId>>
    /\ AppIdle

\* the hook is unmounted: the effect's cleanup runs
Unmount ==
    /\ socket.isMounted
    /\ socket' = useEffectCleanup(socket)
    /\ last' = Step("unmount")
    /\ UNCHANGED <<inbox, nextId>>
    /\ AppIdle

\* the socket's open, close and error events
SocketOpen ==
    /\ socket.wsInstance = "connecting"
    /\ socket' = onopen(socket)
    /\ last' = Step("open")
    /\ UNCHANGED <<inbox, nextId>>
    /\ AppIdle

SocketClose ==
    /\ socket.wsInstance # "null"
    /\ socket' = onclose(socket)
    /\ last' = Step("close")
    /\ UNCHANGED <<inbox, nextId>>
    /\ AppIdle

SocketError ==
    /\ socket.wsInstance \in {"connecting", "open"}
    /\ socket' = onerror(socket)
    /\ last' = Step("error")
    /\ UNCHANGED <<inbox, nextId>>
    /\ AppIdle

\* a server message arrives on the open socket, as a text or a binary frame
Receive ==
    /\ socket.wsInstance = "open"
    /\ inbox.received < MaxMsgs
    /\ \E msg \in ServerMessages(inbox.received + 1, nextId), isBlob \in BOOLEAN :
        /\ inbox' = onmessage(socket, inbox, msg, isBlob)
        /\ nextId' = nextId + Len(msg.ops)
    /\ last' = Step("receive")
    /\ UNCHANGED socket
    /\ AppIdle

\* the text of a binary frame has been read
BlobRead ==
    /\ \E msg \in inbox.parsing : inbox' = onmessageResume(socket, inbox, msg)
    /\ last' = Step("read")
    /\ UNCHANGED <<socket, nextId>>
    /\ AppIdle

\* App renders with a new lastMessage and its effect handles the message;
\* a new state.workbook makes UniverSheet load it, with isLoadingRef up
LastMessageEffect ==
    /\ inbox.fresh
    /\ inbox' = [inbox EXCEPT !.fresh = FALSE,
                              !.handled = Append(@, inbox.lastMessage.seq)]
    /\ LET m == MessageHandler(inbox.lastMessage, State)
       IN  IF inbox.lastMessage.type = "propose_updates"
           THEN Queue(m.state)
           ELSE /\ workbook' = m.state.workbook
                /\ pendingOps' = m.state.pendingOps
                /\ sheets' = m.state.workbook
                /\ last' = Step("load")
                /\ isUserEditAllowedRef' = UserEditAllowedEffect(pendingOps')
                /\ cellUpdate' = "none"
                /\ UNCHANGED <<operationHistory, validations, emitted, pre,
                               programmaticChange, wire, socket>>
    /\ UNCHANGED nextId

\* the validation cycle behind the connection
NextTransport ==
    \/ Mount
    \/ Unmount
    \/ SocketOpen
    \/ SocketClose
    \/ SocketError
    \/ Receive
    \/ BlobRead
    \/ LastMessageEffect
    \/ UpdateStatus
    \/ AcceptAll
    \/ RefuseAll
    \/ HandleConfirm

SpecTransport == Init /\ [][NextTransport]_vars

(***************************************************************************)
(* Properties.                                                             *)
(***************************************************************************)
BatchIds(vals) == {vals[k].operation.id : k \in 1..Len(vals)}
Has(hist, id) == hist[id].type # "none"
Engine == [sheets |-> sheets, history |-> operationHistory]

\* the step is a click on refuse for item i
RefuseStep(i) ==
    last'.kind = "updateStatus" /\ last'.status = "refused" /\ last'.index = i

\* no other item of the batch names the sheet of item i
Alone(i) ==
    \A j \in 1..Len(validations) :
        j # i => validations[j].operation.sheet # validations[i].operation.sheet

\* the workbook shows what the operation of item i does
Reflects(i) ==
    LET op == validations[i].operation
        k == GetSheetByName(sheets, op.sheet)
    IN  CASE op.type = "UPDATE_CELL" ->
                pre[i].cell # NoSheetCell => (k # 0 /\ sheets[k].cells[op.cell] = SetValue(op.value))
          [] op.type = "CREATE_SHEET" -> k # 0
          [] op.type = "DELETE_SHEET" -> k = 0
          [] op.type = "REPLACE_SHEET" ->
                /\ k # 0
                /\ sheets[k].rowCount = op.data.rowCount
                /\ sheets[k].columnCount = op.data.columnCount
                /\ \A c \in DOMAIN op.data.cellData : sheets[k].cells[c] = op.data.cellData[c]
          [] OTHER -> TRUE

\* two cell contents are the same; null and '' both count as empty, as in
\* hadValue of captureStateBeforeOperation
IsEmptyValue(v) == v = Null \/ v = ""
SameContent(a, b) == a.f = b.f /\ (a.v = b.v \/ (IsEmptyValue(a.v) /\ IsEmptyValue(b.v)))

\* the target of item i is as it was before the batch applied the operation
Restored(i) ==
    LET now == Target(sheets, validations[i].operation)
    IN  SameContent(now.cell, pre[i].cell) /\ now.sheet = pre[i].sheet

\* C1: whenever confirm runs on a batch without a pending item, it emits a
\* message, and every operation id of the batch is in exactly one of the two
\* lists: accepted and refused together are the batch ids, and they share none.
C1_ConfirmPartition ==
    [][(last'.kind = "confirm" /\ canConfirm(validations)) =>
        /\ emitted'.sent
        /\ Range(emitted'.accepted) \cup Range(emitted'.refused) = BatchIds(validations)
        /\ Range(emitted'.accepted) \cap Range(emitted'.refused) = {}
        /\ Len(emitted'.accepted) + Len(emitted'.refused) = Len(validations)]_vars

C1_Witness ==
    /\ last.kind = "confirm" /\ Len(validations) = 0 /\ emitted.sent
    /\ Len(emitted.accepted) > 0 /\ Len(emitted.refused) > 0

\* C2: in every reachable state no item has status refused while the effect
\* of its operation is still live in the workbook (stated for the items whose
\* sheet no other item of the batch names).
C2_NoRefusedWhileLive ==
    \A i \in 1..Len(validations) :
        (validations[i].status = "refused" /\ Alone(i)) => ~(Reflects(i) /\ ~Restored(i))

\* C3: a click on refuse for an applied item whose rollback returns false
\* leaves the status and the applied flag of that item, and every other item,
\* as they were.
C3_FailedRollbackKeepsItems ==
    [][\A i \in 1..Len(validations) :
        (RefuseStep(i) /\ validations[i].applied
            /\ ~rollbackOperation(Engine, validations[i].operation).ok)
        => validations' = validations]_vars

C3_Witness ==
    /\ last.kind = "updateStatus" /\ last.status = "refused" /\ last.rb = "failed"
    /\ validations[last.index].applied
    /\ ~Has(operationHistory, validations[last.index].operation.id)

\* the single-item transition applied to the items one after another
RECURSIVE UpdateEach(_, _, _)
UpdateEach(ctl, k, status) ==
    IF k > Len(ctl.validations) THEN ctl
    ELSE UpdateEach(updateStatus(ctl, k, status), k + 1, status)

\* C4: refuseAll and acceptAll leave the items, the workbook and the history
\* exactly as updateStatus applied to the items in list order would.
C4_BulkIsLoopOfSingle ==
    [][(last'.kind = "refuseAll" =>
            (/\ validations' = UpdateEach(Ctl, 1, "refused").validations
             /\ sheets' = UpdateEach(Ctl, 1, "refused").sheets
             /\ operationHistory' = UpdateEach(Ctl, 1, "refused").history))
       /\ (last'.kind = "acceptAll" =>
            (/\ validations' = UpdateEach(Ctl, 1, "accepted").validations
             /\ sheets' = UpdateEach(Ctl, 1, "accepted").sheets
             /\ operationHistory' = UpdateEach(Ctl, 1, "accepted").history))]_vars

\* C5: confirm while an item is still pending changes nothing: no message,
\* the batch and every status as before, no history entry removed.
C5_ConfirmWhilePendingIsNoOp ==
    [][(last'.kind = "confirm" /\ ~canConfirm(validations)) =>
        UNCHANGED <<validations, pendingOps, operationHistory, emitted, sheets>>]_vars

C5_Witness ==
    /\ last.kind = "confirm"
    /\ \E i \in 1..Len(validations) : validations[i].status = "pending"
    /\ \E j \in 1..Len(validations) : validations[j].status # "pending"

\* C6: an id that has a history entry keeps that very entry for as long as
\* it has one: applying its operation again does not change it.
C6_CaptureOnce ==
    [][\A id \in Ids :
        (Has(operationHistory, id) /\ Has(operationHistory', id))
        => operationHistory'[id] = operationHistory[id]]_vars

C9_ToggleIdempotent ==
    [][\A i \in 1..Len(validations) :
        (RefuseStep(i) /\ validations[i].status = "accepted" /\ validations'[i].status = "refused")
        => LET again == updateStatus([validations |-> validations', sheets |-> sheets',
                                      history |-> operationHistory'], i, "accepted")
           IN  /\ again.sheets = sheets
               /\ validations[i].operation.type = "CREATE_SHEET" =>
                    Cardinality({k \in 1..Len(again.sheets) :
                        again.sheets[k].name = validations[i].operation.sheet}) = 1]_vars

\* C10: for every item (whose sheet no other item of the batch names):
\* applied means the workbook shows the operation's effect, not applied
\* means the operation's target is as it was before the operation.
C10_AppliedMatchesWorkbook ==
    \A i \in 1..Len(validations) :
        Alone(i) => /\ validations[i].applied => Reflects(i)
                    /\ ~validations[i].applied => Restored(i)

\* the names of the sheets in tab order
Names(shs) == [k \in 1..Len(shs) |-> shs[k].name]

\* the step applies the operation of item i and nothing else: a batch of one
\* arrives, or an item that is not applied is accepted
AppliesOnly(i) ==
    \/ last'.kind = "propose" /\ Len(pendingOps') = 1 /\ i = 1
    \/ /\ last'.kind = "updateStatus" /\ last'.status = "accepted" /\ last'.index = i
       /\ i \in 1..Len(validations) /\ ~validations[i].applied

\* C11: a confirm that emits its result leaves the history without an entry
\* for any operation id of the batch it finalizes, accepted or refused.
C11_ConfirmClearsBatchHistory ==
    [][(last'.kind = "confirm" /\ canConfirm(validations)) =>
        /\ emitted'.sent
        /\ \A id \in BatchIds(validations) : ~Has(operationHistory', id)]_vars

C11_Witness ==
    /\ last.kind = "confirm" /\ emitted.sent /\ Len(validations) = 0
    /\ Len(emitted.refused) > 0
    /\ \A id \in Range(emitted.accepted) \cup Range(emitted.refused) :
            ~Has(operationHistory, id)

\* C12: applying a REPLACE_SHEET for a sheet that exists leaves every sheet,
\* the replaced one included, at the position it had.
C12_ReplaceKeepsOrder ==
    [][\A i \in 1..Len(validations') :
        (/\ AppliesOnly(i)
         /\ validations'[i].operation.type = "REPLACE_SHEET"
         /\ GetSheetByName(sheets, validations'[i].operation.sheet) # 0)
        => Names(sheets') = Names(sheets)]_vars

C12_Witness ==
    /\ last.kind = "propose" /\ Len(pendingOps) = 1
    /\ pendingOps[1].type = "REPLACE_SHEET"
    /\ operationHistory[pendingOps[1].id].type = "REPLACE_SHEET"
    /\ Len(sheets) = 2 /\ GetSheetByName(sheets, pendingOps[1].sheet) = 1
    /\ sheets[1].rowCount = ReplRows

\* C13: a DELETE_SHEET or REPLACE_SHEET of an existing sheet, applied (as a
\* batch of one) and then rolled back: the rollback succeeds and the sheets
\* are in the order they had before the operation was applied.
C13_RollbackRestoresOrder ==
    [][(/\ last'.kind = "propose" /\ Len(pendingOps') = 1
        /\ pendingOps'[1].type \in {"DELETE_SHEET", "REPLACE_SHEET"}
        /\ GetSheetByName(sheets, pendingOps'[1].sheet) # 0)
       => LET rb == rollbackOperation([sheets |-> sheets', history |-> operationHistory'],
                                      pendingOps'[1])
          IN  rb.ok /\ Names(rb.sheets) = Names(sheets)]_vars

\* C14: when a propose_updates message arrives, the pending list becomes the
\* operations of that message, in their order, and the items are those
\* operations: nothing of the batch that was pending before remains.
C14_ProposeReplacesBatch ==
    [][last'.kind = "propose" =>
        /\ Len(pendingOps') = nextId' - nextId
        /\ \A k \in 1..Len(pendingOps') : pendingOps'[k].id = nextId + k - 1
        /\ Range(pendingOps') \cap Range(pendingOps) = {}
        /\ [k \in 1..Len(validations') |-> validations'[k].operation] = pendingOps']_vars

C14_Witness ==
    /\ last.kind = "propose" /\ ~emitted.sent
    /\ nextId = 3 /\ Len(pendingOps) = 1 /\ pendingOps[1].id = 2
    /\ Len(validations) = 1 /\ validations[1].operation.id = 2

\* C16: a batch with fresh ids never uses a history entry of an earlier
\* batch.  When it arrives none of its ids has an entry; a refuse of one of
\* its applied items that has no entry of its own fails and leaves workbook
\* and history alone, whatever entries earlier batches left; and no step of
\* the validation cycle touches the entry of an id outside the batch at hand.
C16_NoForeignHistory ==
    [][/\ last'.kind = "propose" =>
            \A k \in 1..Len(pendingOps') : ~Has(operationHistory, pendingOps'[k].id)
       /\ \A i \in 1..Len(validations) :
            (RefuseStep(i) /\ validations[i].applied
                /\ ~Has(operationHistory, validations[i].operation.id))
            => /\ last'.rb = "failed"
               /\ sheets' = sheets
               /\ operationHistory' = operationHistory
       /\ \A id \in Ids :
            (last'.kind # "direct"
                /\ id \notin (BatchIds(validations) \cup BatchIds(validations')))
            => operationHistory'[id] = operationHistory[id]]_vars

C16_Witness ==
    /\ last.kind = "updateStatus" /\ last.status = "refused" /\ last.rb = "failed"
    /\ ~Has(operationHistory, validations[last.index].operation.id)
    /\ \E id \in Ids : id \notin BatchIds(validations) /\ Has(operationHistory, id)

\* the workbook after shows what op does to the workbook before
EffectShown(before, after, op) ==
    LET b == GetSheetByName(before, op.sheet)
        a == GetSheetByName(after, op.sheet)
    IN  CASE op.type = "UPDATE_CELL" ->
                b # 0 => (a # 0 /\ after[a].cells[op.cell] = SetValue(op.value))
          [] op.type = "CREATE_SHEET" -> a # 0
          [] op.type = "DELETE_SHEET" -> a = 0
          [] op.type = "REPLACE_SHEET" ->
                /\ a # 0
                /\ after[a].rowCount = op.data.rowCount
                /\ after[a].columnCount = op.data.columnCount
                /\ \A c \in DOMAIN op.data.cellData : after[a].cells[c] = op.data.cellData[c]
          [] OTHER -> TRUE

C20_ListOrder ==
    [][(last'.kind = "propose" /\ Len(pendingOps') = 2) =>
        LET op1 == pendingOps'[1]
            op2 == pendingOps'[2]
            k == GetSheetByName(sheets', op2.sheet)
        IN  /\ (/\ op1.type = "CREATE_SHEET" /\ op2.type = "UPDATE_CELL"
                 /\ op1.sheet = op2.sheet /\ GetSheetByName(sheets, op1.sheet) = 0)
                => (k # 0 /\ sheets'[k].cells[op2.cell] = SetValue(op2.value))
            /\ (/\ op1.type = "UPDATE_CELL" /\ op2.type = "UPDATE_CELL"
                 /\ op1.sheet = op2.sheet /\ op1.cell = op2.cell
                 /\ GetSheetByName(sheets, op1.sheet) # 0)
                => (/\ sheets'[k].cells[op2.cell] = SetValue(op2.value)
                    /\ operationHistory'[op2.id].originalValue = SetValue(op1.value).v)]_vars

C20_Witness ==
    /\ last.kind = "propose" /\ Len(pendingOps) = 2
    /\ pendingOps[1].type = "CREATE_SHEET" /\ pendingOps[2].type = "UPDATE_CELL"
    /\ pendingOps[1].sheet = pendingOps[2].sheet
    /\ GetSheetByName(sheets, pendingOps[2].sheet) = 2 /\ Len(sheets) = 2
    /\ sheets[2].rowCount = CreateRows
    /\ sheets[2].cells[pendingOps[2].cell] = SetValue(pendingOps[2].value)
    /\ operationHistory[pendingOps[2].id].originalValue = Null

\* C15: an apply_direct_updates message applies its operation to the
\* workbook at once and leaves the pending list, every item (operation,
\* status, applied flag) and the last validate_changes message as they were.
C15_DirectLeavesValidation ==
    [][last'.kind = "direct" =>
        /\ UNCHANGED <<pendingOps, validations, emitted>>
        /\ \E n \in 1..MaxDirectLen : \E ops \in Batches(nextId, n) :
            LET mid == applyOpsToUniver(Engine, SubSeq(ops, 1, n - 1), TRUE).sheets
                op == ops[n]
            IN  /\ nextId' = nextId + n
                /\ ~SwitchFails(mid, op) => EffectShown(mid, sheets', op)
                /\ SwitchFails(mid, op) => sheets' = mid
                /\ Has(operationHistory', op.id) = ~CaptureFails(mid, op)]_vars

C15_Witness ==
    /\ last.kind = "direct" /\ Len(pendingOps) = 1 /\ pendingOps[1].id = 1
    /\ validations[1].status = "refused" /\ ~validations[1].applied
    /\ Has(operationHistory, 2) /\ operationHistory[2].type = "UPDATE_CELL"
    /\ ~emitted.sent

C19_NoCaptureWhilePending ==
    [][/\ (Len(pendingOps) > 0 \/ Len(pendingOps') > 0) => cellUpdate' = "none"
       /\ (last'.kind = "user" /\ Len(pendingOps) = 0) => cellUpdate' = "user"]_vars

\* the workbook before the k-th operation of an arriving batch is handled
Before(ops, k) == applyOpsToUniver(Engine, SubSeq(ops, 1, k - 1), TRUE).sheets

\* C21 as claimed: right after a batch arrives every item is pending with
\* applied = true, and every operation of the batch has been applied with
\* its pre-state captured in the history.
C21_AllAppliedAndCaptured ==
    [][last'.kind = "propose" =>
        \A k \in 1..Len(validations') :
            /\ validations'[k].status = "pending" /\ validations'[k].applied
            /\ ~SwitchFails(Before(pendingOps', k), pendingOps'[k])
            /\ Has(operationHistory', pendingOps'[k].id)]_vars

\* C21 amended: right after a batch arrives every item is pending with
\* applied = true; an operation has a history entry exactly when its
\* pre-state could be captured, and the last operation of the batch shows in
\* the workbook unless its handling failed, in which case it left the
\* workbook alone.
C21_AppliedBestEffort ==
    [][last'.kind = "propose" =>
        /\ \A k \in 1..Len(validations') :
            /\ validations'[k].status = "pending" /\ validations'[k].applied
            /\ validations'[k].operation = pendingOps'[k]
            /\ Has(operationHistory', pendingOps'[k].id)
                    = ~CaptureFails(Before(pendingOps', k), pendingOps'[k])
        /\ LET n == Len(pendingOps')
               mid == Before(pendingOps', n)
           IN  IF SwitchFails(mid, pendingOps'[n]) THEN sheets' = mid
               ELSE EffectShown(mid, sheets', pendingOps'[n])]_vars

C21_Witness ==
    /\ last.kind = "propose" /\ Len(validations) = 2
    /\ \A k \in 1..2 : validations[k].status = "pending" /\ validations[k].applied
    /\ pendingOps[1].type = "REPLACE_SHEET" /\ ~Has(operationHistory, pendingOps[1].id)
    /\ pendingOps[2].type = "UPDATE_CELL" /\ pendingOps[2].sheet = "Foo"
    /\ Has(operationHistory, pendingOps[2].id)
    /\ Target(sheets, pendingOps[2]).cell = SetValue(pendingOps[2].value)

\* C22: within a batch no item goes back to pending, whatever the handler,
\* so canConfirm, once true, stays true until the batch is confirmed or
\* replaced.
C22_NeverBackToPending ==
    [][last'.kind \in {"updateStatus", "acceptAll", "refuseAll", "direct", "user"} =>
        /\ Len(validations') = Len(validations)
        /\ \A i \in 1..Len(validations) :
            /\ validations'[i].operation = validations[i].operation
            /\ validations[i].status # "pending" => validations'[i].status # "pending"
        /\ (Len(validations) > 0 /\ canConfirm(validations)) => canConfirm(validations')]_vars

C22_Witness ==
    /\ last.kind = "updateStatus" /\ last.status = "refused" /\ last.rb = "failed"
    /\ Len(validations) = 2 /\ canConfirm(validations)
    /\ validations[last.index].status = "accepted"

\* two workbooks show the same sheets, in the same order, with the same
\* dimensions and the same content in every cell
SameWorkbook(a, b) ==
    /\ Names(a) = Names(b)
    /\ \A k \in 1..Len(a) :
        /\ a[k].rowCount = b[k].rowCount /\ a[k].columnCount = b[k].columnCount
        /\ \A c \in Cells : SameContent(a[k].cells[c], b[k].cells[c])

\* the workbook after Refuse All on the batch that has just arrived
AfterRefuseAll ==
    refuseAll([validations |-> validations', sheets |-> sheets',
               history |-> operationHistory']).sheets

\* C23: Refuse All on a batch that has just arrived gives back the workbook of
\* before the batch: the same sheets in the same order, every cell with the
\* content it had, for every batch.
C23_RefuseAllRestoresWorkbook ==
    [][last'.kind = "propose" => SameWorkbook(AfterRefuseAll, sheets)]_vars

\* C24: refusing a CREATE_SHEET item never removes a sheet that was there
\* before the batch applied the operation.
C24_RefuseCreateKeepsExisting ==
    [][\A i \in 1..Len(validations) :
        (/\ RefuseStep(i) /\ validations[i].operation.type = "CREATE_SHEET"
         /\ Alone(i) /\ pre[i].sheet # <<>>
         /\ GetSheetByName(sheets, validations[i].operation.sheet) # 0)
        => GetSheetByName(sheets', validations[i].operation.sheet) # 0]_vars

\* C27 as claimed: whenever no batch is pending, the history holds no entry.
C27_NoHistoryWithoutBatch ==
    pendingOps = <<>> => \A id \in Ids : ~Has(operationHistory, id)

\* C28: after acceptAll every item of the batch is accepted and applied,
\* whatever it was before, so canConfirm holds, and a confirm that follows
\* emits every id of the batch as accepted and none as refused.
C28_AcceptAllAcceptsAll ==
    [][last'.kind = "acceptAll" =>
        /\ \A k \in 1..Len(validations') :
            /\ validations'[k].status = "accepted" /\ validations'[k].applied
            /\ validations'[k].operation = validations[k].operation
        /\ canConfirm(validations')
        /\ LET r == handleConfirm([validations |-> validations', pendingOps |-> pendingOps',
                                   workbook |-> workbook', history |-> operationHistory',
                                   emitted |-> emitted', socket |-> socket', wire |-> wire'])
           IN  /\ r.emitted.sent
               /\ r.emitted.accepted = [k \in 1..Len(validations) |-> validations[k].operation.id]
               /\ r.emitted.refused = <<>>]_vars

C28_Witness ==
    /\ last.kind = "acceptAll" /\ Len(validations) = 2
    /\ \A k \in 1..2 : validations[k].status = "accepted" /\ validations[k].applied
    /\ \E k \in 1..2 : ~Has(operationHistory, validations[k].operation.id)

\* C25 as claimed: a confirm clears the batch, the items and the history
\* entries of the batch only when the validate_changes message was handed to
\* the socket; with the socket not open the batch and the decisions stay.
C25_ConfirmNeedsOpenSocket ==
    [][(last'.kind = "confirm" /\ canConfirm(validations)) =>
        IF socket.wsInstance = "open" /\ socket.workerInstance
        THEN wire' = emitted' /\ wire'.sent
        ELSE /\ pendingOps' = pendingOps
             /\ validations' = validations
             /\ operationHistory' = operationHistory]_vars

\* C26 as claimed: App handles the server messages in the order of their
\* arrival, each once: once nothing is on its way any more, the handled
\* messages are all those received while the hook was mounted.
C26_HandledOnceInOrder ==
    /\ \A i, j \in 1..Len(inbox.handled) : i < j => inbox.handled[i] < inbox.handled[j]
    /\ (inbox.parsing = {} /\ ~inbox.fresh /\ ~inbox.lost)
            => inbox.handled = [k \in 1..inbox.received |-> k]

\* C29: there is never more than one connection and one worker, however
\* often the hook is mounted and unmounted; the cleanup leaves the
\* connection as it is, and no step but the socket's close event resets a
\* singleton.
C29_OneConnection ==
    [][/\ socket'.sockets <= 1 /\ socket'.workers <= 1
       /\ last'.kind = "unmount" =>
            /\ socket'.wsInstance = socket.wsInstance
            /\ socket'.sockets = socket.sockets /\ socket'.workers = socket.workers
            /\ socket'.workerInstance = socket.workerInstance
            /\ socket'.connectionPromise = socket.connectionPromise
       /\ (\/ socket.wsInstance # "null" /\ socket'.wsInstance = "null"
           \/ socket.workerInstance /\ ~socket'.workerInstance
           \/ socket.connectionPromise /\ ~socket'.connectionPromise)
          => last'.kind = "close"]_vars

\* the hook is mounted again after the connection was closed, and connects
C29_Witness ==
    /\ last.kind = "mount" /\ socket.wsInstance = "connecting"
    /\ socket.sockets = 1 /\ socket.workers = 1 /\ socket.isMounted

\* C30: the reducer changes the field its action names and no other:
\* REPLACE_WORKBOOK sets the workbook and leaves pendingOps, also with a batch
\* pending; QUEUE_OPS and CLEAR_PENDING set pendingOps and leave the workbook.
C30_ReducerFrame ==
    [][/\ last'.kind = "load" =>
            pendingOps' = pendingOps /\ workbook' = inbox.lastMessage.wb
       /\ (last'.kind = "propose" /\ inbox.fresh) =>
            workbook' = workbook /\ pendingOps' = inbox.lastMessage.ops
       /\ (last'.kind = "confirm" /\ canConfirm(validations)) =>
            workbook' = workbook /\ pendingOps' = <<>>]_vars

C30_Witness ==
    /\ last.kind = "load" /\ Len(pendingOps) = 1 /\ Len(validations) = 1
    /\ workbook = inbox.lastMessage.wb /\ workbook # <<>>

====
